---- MODULE Spec2Model ----
(***************************************************************************)
(* Index acquisition and caching of the GPTProto docs MCP server           *)
(* (src/tools/gptproto-docs.ts): the memory cache (cachedIndex,            *)
(* lastFetchTime), the remote fetch with its disk write, the disk          *)
(* fallback (per-user cache file, then bundled copy), loadIndex and        *)
(* loadIndexSync, run by concurrent asynchronous calls on one event loop.  *)
(*                                                                         *)
(* Values.  A JavaScript value that the code tests for truthiness is a     *)
(* natural number: Null (0) stands for the falsy values (null and the      *)
(* falsy JSON values 0, false, ""), and i in Indexes for the i-th          *)
(* DocsIndex object.  File contents and response bodies are strings:       *)
(* JSON texts, or text that is not JSON.                                   *)
(***************************************************************************)
EXTENDS Integers, Sequences, FiniteSets, TLC

\* ---- bounds of the model ------------------------------------------------
NumIndexes == 2
MaxTicks == 2

\* ---- program constants --------------------------------------------------
CACHE_TTL == 60 * 60 * 1000
FETCH_TIMEOUT == 10000

Null == 0
\* The two request handlers of the server that await loadIndex(): the tool
\* handler (search, get, list) and the resource handler.  One call of each can
\* be in flight at a time.
Calls == {"tool", "resource"}
Indexes == 1..NumIndexes
Values == {Null} \cup Indexes

\* Date.now() when the process starts: far more than CACHE_TTL past the epoch.
StartClock == 2 * CACHE_TTL
\* How far the clock moves between two steps of the event loop.
Delays == {FETCH_TIMEOUT, CACHE_TTL - FETCH_TIMEOUT}

VARIABLES
  clock,          \* Date.now()
  ticks,          \* clock advances so far (bounded by MaxTicks)
  cachedIndex,    \* module variable cachedIndex (Null = null)
  lastFetchTime,  \* module variable lastFetchTime
  cacheDir,       \* TRUE iff CACHE_DIR exists
  userFile,       \* CACHE_INDEX_PATH: "absent", "unreadable" or its text
  bundledFile,    \* LOCAL_INDEX_PATH: "absent", "unreadable" or its text
  pc,             \* per call: "idle", "fetch", "json", "resume", "done"
  now,            \* per call: the local `now` of loadIndex
  held,           \* per call: the (stale) index the memory cache held at the call
  resp,           \* per call: how the remote request ended, or the body it delivered
  wr,             \* per call: how the disk write of fetchRemoteIndex ended
  remoteIndex,    \* per call: the local `remoteIndex` of loadIndex
  outcome,        \* per call: what loadIndex returned or threw
  ops,            \* per call: the I/O operations performed, in order
  lastStore,      \* the index and the timestamp that the last storing call held
                  \* in its locals (loadIndexSync stores no timestamp: 0)
  diskAdopt,      \* the last adoption of a disk fallback index by loadIndex
  persisted       \* the index of the most recent successful remote fetch if its
                  \* disk write succeeded (else Null), and whether the process
                  \* has restarted since

\* The query engine (searchDocs, getDocContent, listApis) working on the
\* snapshot that its `await loadIndex()` delivered.
VARIABLES
  docsIndex,      \* the local `index` of the query function: what loadIndex
                  \* delivered
  call,           \* the query function running: its arguments and its local
                  \* `scored`
  result          \* what it returned or threw

qvars == <<docsIndex, call, result>>

\* The build script (buildIndex) that makes the index file served to the
\* clients and shipped with the package.
VARIABLES
  pages,          \* the local `pages`: what parseDocsJson returned
  entries,        \* the local `entries`
  vendors,        \* the local Set `vendors`, in insertion order
  output          \* OUTPUT_PATH: the index written, or NoOutput

bvars == <<pages, entries, vendors, output>>

vars == <<clock, ticks, cachedIndex, lastFetchTime, cacheDir, userFile,
          bundledFile, pc, now, held, resp, wr, remoteIndex, outcome, ops,
          lastStore, diskAdopt, persisted, docsIndex, call, result,
          pages, entries, vendors, output>>

\* ---- JSON -----------------------------------------------------------------
\* JSON.stringify of a value.
Stringify(v) == IF v = Null THEN "null" ELSE "idx" \o ToString(v)

JsonTexts == {Stringify(v) : v \in Values}
\* Response bodies and file texts: every JSON text, and one that is not JSON.
Texts == JsonTexts \cup {"garbage"}
FileStates == {"absent", "unreadable"} \cup Texts

\* JSON.parse of a text: the value, or a SyntaxError.
Parse(t) ==
  IF t \in JsonTexts
    THEN [ok |-> TRUE, val |-> CHOOSE v \in Values : Stringify(v) = t]
    ELSE [ok |-> FALSE, val |-> Null]

\* JSON.parse(readFileSync(path, "utf-8")) inside its try block.
TryRead(f) ==
  IF f \in {"absent", "unreadable"} THEN [ok |-> FALSE, val |-> Null]
  ELSE Parse(f)

\* ---- results --------------------------------------------------------------
Pending == [fn |-> "none", kind |-> "none", index |-> Null, via |-> "none"]
Returned(f, i, src) == [fn |-> f, kind |-> "ok", index |-> i, via |-> src]
Thrown(f) == [fn |-> f, kind |-> "err", index |-> Null, via |-> "none"]

NoStore == [index |-> Null, time |-> 0]
NoAdopt == [valid |-> FALSE, index |-> Null, at |-> 0, started |-> 0]
NoneDurable == [index |-> Null, restarted |-> FALSE]

\* ---- the memory cache -----------------------------------------------------
\* A mis-typed freshness test: the comparison the wrong way round.
IsFreshFlipped(t) == cachedIndex # Null /\ (t - lastFetchTime) > CACHE_TTL

\* loadIndex: `cachedIndex && (now - lastFetchTime) < CACHE_TTL`.
IsFresh(t) == cachedIndex # Null /\ (t - lastFetchTime) < CACHE_TTL

\* A store that forgets the timestamp.
AdoptNoStamp(c, idx) == [index |-> idx, time |-> lastFetchTime]

\* A store that keeps the later of the two timestamps.
AdoptMaxStamp(c, idx) ==
  [index |-> idx,
   time |-> IF lastFetchTime > now[c] THEN lastFetchTime ELSE now[c]]

\* A store that stamps the time and forgets the index.
AdoptStampOnly(c, idx) == [index |-> cachedIndex, time |-> now[c]]

\* loadIndex: `cachedIndex = idx; lastFetchTime = now`, one synchronous block.
Adopt(c, idx) == [index |-> idx, time |-> now[c]]

\* ---- fetchRemoteIndex: the disk write ---------------------------------------
\* ensureCacheDir() and writeFileSync(): every way they can end.
WriteOutcomes ==
  {"ok", "writefail"} \cup (IF cacheDir THEN {} ELSE {"mkdirfail"})

\* A write whose failure reaches the outer catch of fetchRemoteIndex.
FetchResultUnguarded(v, w) == IF w = "ok" THEN v ELSE Null

\* What fetchRemoteIndex returns for the parsed body v once the write ended w:
\* the inner try/catch ignores the write's failure.
FetchResult(v, w) == v

\* ---- loadCachedIndex --------------------------------------------------------
\* The two sources tried in the opposite order.
loadCachedIndexBundledFirst ==
  LET u == TryRead(userFile)
      b == TryRead(bundledFile)
  IN  IF b.ok
        THEN [val |-> b.val, via |-> "bundled", ops |-> <<"readBundled">>]
      ELSE IF u.ok
        THEN [val |-> u.val, via |-> "user",
              ops |-> <<"readBundled", "readUser">>]
      ELSE [val |-> Null, via |-> "none",
            ops |-> <<"readBundled", "readUser">>]

\* loadCachedIndex(): the per-user file when it exists and parses (whatever
\* value it parses to), else the bundled copy when it exists and parses, else null.
loadCachedIndex ==
  LET u == TryRead(userFile)
      b == TryRead(bundledFile)
  IN  IF u.ok
        THEN [val |-> u.val, via |-> "user", ops |-> <<"readUser">>]
      ELSE IF b.ok
        THEN [val |-> b.val, via |-> "bundled",
              ops |-> <<"readUser", "readBundled">>]
      ELSE [val |-> Null, via |-> "none",
            ops |-> <<"readUser", "readBundled">>]

\* ---- the query engine at rest ------------------------------------------------
\* A DocsIndex: its entries, in index order, and its vendors list.
EmptyIndex == [entries |-> <<>>, vendors |-> <<>>]
\* No query function is running.
NoCall ==
  [fn |-> "none", query |-> <<>>, limitGiven |-> FALSE, limit |-> 0,
   scored |-> <<>>, docPath |-> <<>>, vendorGiven |-> FALSE, vendor |-> <<>>]
NoResult ==
  [kind |-> "none", hits |-> <<>>, vendors |-> <<>>, apis |-> <<>>, error |-> ""]

\* The build script has not run.
NoOutput == [version |-> "none", totalDocs |-> 0, vendors |-> <<>>, entries |-> <<>>]
NotBuilding ==
  /\ pages = <<>>
  /\ entries = <<>>
  /\ vendors = <<>>
  /\ output = NoOutput

\* ---- initial state ------------------------------------------------------------
\* A fresh process.  The per-user file is absent, unreadable, damaged, or an
\* index an earlier run wrote; the package ships the bundled copy (index 1) or
\* was built without it.
Init ==
  /\ clock = StartClock
  /\ ticks = 0
  /\ cachedIndex = Null
  /\ lastFetchTime = 0
  /\ userFile \in {"absent", "unreadable", "garbage"} \cup {Stringify(i) : i \in Indexes}
  /\ cacheDir \in BOOLEAN
  /\ (userFile # "absent" => cacheDir)
  /\ bundledFile \in {"absent", Stringify(1)}
  /\ pc = [c \in Calls |-> "idle"]
  /\ now = [c \in Calls |-> 0]
  /\ held = [c \in Calls |-> Null]
  /\ resp = [c \in Calls |-> "none"]
  /\ wr = [c \in Calls |-> "none"]
  /\ remoteIndex = [c \in Calls |-> Null]
  /\ outcome = [c \in Calls |-> Pending]
  /\ ops = [c \in Calls |-> <<>>]
  /\ lastStore = NoStore
  /\ diskAdopt = NoAdopt
  /\ persisted = NoneDurable
  /\ docsIndex = EmptyIndex
  /\ call = NoCall
  /\ result = NoResult
  /\ NotBuilding

disk == <<cacheDir, userFile, bundledFile>>
cache == <<cachedIndex, lastFetchTime, lastStore>>
time == <<clock, ticks>>
locals == <<now, held, resp, wr, remoteIndex>>

\* ---- loadIndex ------------------------------------------------------------------
\* loadIndex() is called: read the clock, return the memory cache if fresh,
\* else call fetchRemoteIndex(), which issues the request and awaits it.
LoadIndexStart(c) ==
  /\ UNCHANGED <<qvars, bvars>>
  /\ pc[c] = "idle"
  /\ IF IsFresh(clock)
       THEN /\ pc' = [pc EXCEPT ![c] = "done"]
            /\ outcome' = [outcome EXCEPT ![c] = Returned("loadIndex", cachedIndex, "memory")]
            /\ ops' = [ops EXCEPT ![c] = <<>>]
            /\ UNCHANGED <<now, held>>
       ELSE /\ pc' = [pc EXCEPT ![c] = "fetch"]
            /\ now' = [now EXCEPT ![c] = clock]
            /\ held' = [held EXCEPT ![c] = cachedIndex]
            /\ ops' = [ops EXCEPT ![c] = <<"fetch">>]
            /\ UNCHANGED outcome
  /\ UNCHANGED <<time, cache, disk, resp, wr, remoteIndex, diskAdopt, persisted>>

\* The request of fetchRemoteIndex settles: rejected (a network error, or the
\* 10 s abort), answered with a non-2xx status, or answered with a 2xx
\* status, after which response.json() is awaited.
FetchSettles(c) ==
  /\ UNCHANGED <<qvars, bvars>>
  /\ pc[c] = "fetch"
  /\ \E r \in {"rejected", "status", "ok"} :
       IF r = "ok"
         THEN /\ pc' = [pc EXCEPT ![c] = "json"]
              /\ UNCHANGED <<resp, remoteIndex>>
         ELSE /\ pc' = [pc EXCEPT ![c] = "resume"]
              /\ resp' = [resp EXCEPT ![c] = r]
              /\ remoteIndex' = [remoteIndex EXCEPT ![c] = Null]
  /\ UNCHANGED <<time, cache, disk, now, held, wr, outcome, ops, diskAdopt, persisted>>

\* response.json() settles: rejected (the abort, or a body that is not JSON),
\* or resolved with the parsed body, which is then written to the per-user
\* cache file and returned.
JsonSettles(c) ==
  /\ UNCHANGED <<qvars, bvars>>
  /\ pc[c] = "json"
  /\ pc' = [pc EXCEPT ![c] = "resume"]
  /\ \E b \in Texts \cup {"aborted"} :
       IF b # "aborted" /\ Parse(b).ok
         THEN \E w \in WriteOutcomes :
                LET index == Parse(b).val IN
                /\ cacheDir' = (cacheDir \/ w # "mkdirfail")
                /\ userFile' = IF w = "ok" THEN Stringify(index) ELSE userFile
                /\ wr' = [wr EXCEPT ![c] = w]
                /\ ops' = [ops EXCEPT ![c] = Append(@, IF w = "ok" THEN "write" ELSE w)]
                /\ resp' = [resp EXCEPT ![c] = b]
                /\ remoteIndex' = [remoteIndex EXCEPT ![c] = FetchResult(index, w)]
                /\ persisted' = IF index = Null THEN persisted
                                ELSE IF w = "ok" THEN [index |-> index, restarted |-> FALSE]
                                ELSE NoneDurable
         ELSE /\ resp' = [resp EXCEPT ![c] = IF b = "aborted" THEN "rejected" ELSE "malformed"]
              /\ remoteIndex' = [remoteIndex EXCEPT ![c] = Null]
              /\ UNCHANGED <<cacheDir, userFile, wr, ops, persisted>>
  /\ UNCHANGED <<time, cache, bundledFile, now, held, outcome, diskAdopt>>

\* loadIndex resumes after `await fetchRemoteIndex()`: store and return the
\* remote index, else store and return the disk fallback, else throw.
LoadIndexResume(c) ==
  /\ UNCHANGED <<qvars, bvars>>
  /\ pc[c] = "resume"
  /\ pc' = [pc EXCEPT ![c] = "done"]
  /\ IF remoteIndex[c] # Null
       THEN LET pair == Adopt(c, remoteIndex[c]) IN
            /\ cachedIndex' = pair.index
            /\ lastFetchTime' = pair.time
            /\ lastStore' = [index |-> remoteIndex[c], time |-> now[c]]
            /\ outcome' = [outcome EXCEPT ![c] = Returned("loadIndex", pair.index, "remote")]
            /\ diskAdopt' = NoAdopt
            /\ UNCHANGED ops
       ELSE LET fallbackIndex == loadCachedIndex IN
            /\ ops' = [ops EXCEPT ![c] = @ \o fallbackIndex.ops]
            /\ IF fallbackIndex.val # Null
                 THEN LET pair == Adopt(c, fallbackIndex.val) IN
                      /\ cachedIndex' = pair.index
                      /\ lastFetchTime' = pair.time
                      /\ lastStore' = [index |-> fallbackIndex.val, time |-> now[c]]
                      /\ outcome' = [outcome EXCEPT ![c] =
                                       Returned("loadIndex", pair.index, fallbackIndex.via)]
                      /\ diskAdopt' = [valid |-> TRUE, index |-> fallbackIndex.val,
                                       at |-> clock, started |-> now[c]]
                 ELSE /\ outcome' = [outcome EXCEPT ![c] = Thrown("loadIndex")]
                      /\ UNCHANGED <<cache, diskAdopt>>
  /\ now' = [now EXCEPT ![c] = 0]
  /\ held' = [held EXCEPT ![c] = Null]
  /\ resp' = [resp EXCEPT ![c] = "none"]
  /\ wr' = [wr EXCEPT ![c] = "none"]
  /\ remoteIndex' = [remoteIndex EXCEPT ![c] = Null]
  /\ UNCHANGED <<time, disk, persisted>>

\* ---- loadIndexSync ----------------------------------------------------------------
\* loadIndexSync() is called: it runs to completion in one step.
LoadIndexSync(c) ==
  /\ UNCHANGED <<qvars, bvars>>
  /\ pc[c] = "idle"
  /\ pc' = [pc EXCEPT ![c] = "done"]
  /\ IF cachedIndex # Null
       THEN /\ outcome' = [outcome EXCEPT ![c] = Returned("loadIndexSync", cachedIndex, "memory")]
            /\ ops' = [ops EXCEPT ![c] = <<>>]
            /\ UNCHANGED <<cache, diskAdopt>>
       ELSE LET fallbackIndex == loadCachedIndex IN
            /\ ops' = [ops EXCEPT ![c] = fallbackIndex.ops]
            /\ IF fallbackIndex.val # Null
                 THEN /\ cachedIndex' = fallbackIndex.val
                      /\ lastStore' = [index |-> fallbackIndex.val, time |-> 0]
                      /\ outcome' = [outcome EXCEPT ![c] =
                                       Returned("loadIndexSync", fallbackIndex.val, fallbackIndex.via)]
                      /\ diskAdopt' = NoAdopt
                      /\ UNCHANGED lastFetchTime
                 ELSE /\ outcome' = [outcome EXCEPT ![c] = Thrown("loadIndexSync")]
                      /\ UNCHANGED <<cache, diskAdopt>>
  /\ UNCHANGED <<time, disk, locals, persisted>>

\* The caller receives the result of its call.
Settle(c) ==
  /\ UNCHANGED <<qvars, bvars>>
  /\ pc[c] = "done"
  /\ pc' = [pc EXCEPT ![c] = "idle"]
  /\ outcome' = [outcome EXCEPT ![c] = Pending]
  /\ ops' = [ops EXCEPT ![c] = <<>>]
  /\ UNCHANGED <<time, cache, disk, locals, diskAdopt, persisted>>

\* ---- environment ------------------------------------------------------------------
\* Time passes while the event loop waits.  A continuation that is ready to run
\* (a call about to resume, a result about to be received) runs first, and a
\* request and its body are cut off by AbortSignal.timeout(10000), so a call
\* resumes within FETCH_TIMEOUT of its start.
Tick(d) ==
  /\ UNCHANGED <<qvars, bvars>>
  /\ ticks < MaxTicks
  /\ \A c \in Calls : pc[c] \notin {"resume", "done"}
  /\ \A c \in Calls :
       pc[c] \in {"fetch", "json"} => clock + d - now[c] <= FETCH_TIMEOUT
  /\ clock' = clock + d
  /\ ticks' = ticks + 1
  /\ UNCHANGED <<cache, disk, pc, locals, outcome, ops, diskAdopt, persisted>>

\* The process exits and starts again: module state is re-initialised, calls
\* in flight are gone, the disk stays.
Restart ==
  /\ UNCHANGED <<qvars, bvars>>
  /\ cachedIndex # Null \/ \E c \in Calls : pc[c] # "idle"
  /\ cachedIndex' = Null
  /\ lastFetchTime' = 0
  /\ lastStore' = NoStore
  /\ diskAdopt' = NoAdopt
  /\ pc' = [c \in Calls |-> "idle"]
  /\ now' = [c \in Calls |-> 0]
  /\ held' = [c \in Calls |-> Null]
  /\ resp' = [c \in Calls |-> "none"]
  /\ wr' = [c \in Calls |-> "none"]
  /\ remoteIndex' = [c \in Calls |-> Null]
  /\ outcome' = [c \in Calls |-> Pending]
  /\ ops' = [c \in Calls |-> <<>>]
  /\ persisted' = IF persisted.index = Null THEN persisted
                  ELSE [persisted EXCEPT !.restarted = TRUE]
  /\ UNCHANGED <<time, disk>>

\* The steps of index acquisition; none of them runs a query function.
Next ==
  \/ \E c \in Calls : LoadIndexStart(c)
  \/ \E c \in Calls : FetchSettles(c)
  \/ \E c \in Calls : JsonSettles(c)
  \/ \E c \in Calls : LoadIndexResume(c)
  \/ \E c \in Calls : LoadIndexSync(c)
  \/ \E c \in Calls : Settle(c)
  \/ \E d \in Delays : Tick(d)
  \/ Restart

Spec == Init /\ [][Next]_vars

\* ---- vocabulary of the properties ---------------------------------------------------
\* A disk source yields an index: it exists, is readable, parses, and parses to
\* an index rather than to null.
Yields(f) == TryRead(f).ok /\ TryRead(f).val # Null
IndexIn(f) == TryRead(f).val

\* Call c takes the step on which loadIndex() is entered.
Enters(c) == pc[c] = "idle" /\ pc'[c] # "idle" /\ outcome'[c].fn # "loadIndexSync"
\* Call c takes the step on which loadIndex() resumes after the fetch and ends.
Resumes(c) == pc[c] = "resume" /\ pc'[c] = "done"
\* The remote fetch of call c delivered an index.
RemoteOk(c) == resp[c] \in JsonTexts /\ Parse(resp[c]).val # Null
RemoteIndexOf(c) == Parse(resp[c]).val
\* Call c returned index i from memory, with no I/O at all.
MemoryHit(c, i) ==
  /\ pc'[c] = "done"
  /\ outcome'[c] = Returned("loadIndex", i, "memory")
  /\ ops'[c] = <<>>

\* C1: whenever the memory cache holds an index and now - lastFetchTime is less
\* than one hour, loadIndex returns exactly that index, performs no fetch and no
\* disk read or write, and leaves cachedIndex and lastFetchTime unchanged.
C1_FreshCacheHit ==
  [][\A c \in Calls :
       (Enters(c) /\ cachedIndex # Null /\ clock - lastFetchTime < CACHE_TTL)
         => /\ MemoryHit(c, cachedIndex)
            /\ UNCHANGED <<cachedIndex, lastFetchTime, cacheDir, userFile, bundledFile>>]_vars

C1_Witness ==
  \E c \in Calls :
    /\ pc[c] = "done"
    /\ outcome[c] = Returned("loadIndex", cachedIndex, "memory")
    /\ ops[c] = <<>>
    /\ clock - lastFetchTime < CACHE_TTL
    /\ clock > lastFetchTime

\* C2: when the memory cache was absent or stale, the remote fetch failed, and
\* the per-user cache file holds a valid index when it is read, loadIndex
\* returns that index without an error and adopts it as the memory cache.
C2_UserCacheFallback ==
  [][\A c \in Calls :
       (Resumes(c) /\ ~RemoteOk(c) /\ Yields(userFile))
         => /\ outcome'[c] = Returned("loadIndex", IndexIn(userFile), "user")
            /\ cachedIndex' = IndexIn(userFile)]_vars

C2_Witness ==
  \E c \in Calls :
    /\ pc[c] = "done"
    /\ outcome[c] = Returned("loadIndex", IndexIn(userFile), "user")
    /\ ops[c] = <<"fetch", "readUser">>
    /\ cachedIndex = IndexIn(userFile)

\* C3: loadIndex throws exactly when the memory cache was absent or stale, the
\* remote fetch failed, and neither the per-user cache file nor the bundled
\* copy holds an index; in no other situation does it throw.
C3_ThrowsOnlyWhenNoSource ==
  [][\A c \in Calls :
       /\ Enters(c) => outcome'[c].kind # "err"
       /\ Resumes(c) =>
            (outcome'[c].kind = "err"
               <=> (~RemoteOk(c) /\ ~Yields(userFile) /\ ~Yields(bundledFile)))]_vars

\* C4: when the memory cache was absent or stale and the remote fetch succeeded,
\* loadIndex returns the index parsed from the response, cachedIndex is that
\* index, and lastFetchTime is such that a loadIndex entered right then is a hit.
C4_RemoteStore ==
  [][\A c \in Calls :
       (Resumes(c) /\ RemoteOk(c))
         => /\ outcome'[c] = Returned("loadIndex", RemoteIndexOf(c), "remote")
            /\ cachedIndex' = RemoteIndexOf(c)
            /\ clock' - lastFetchTime' < CACHE_TTL]_vars

C4_Witness ==
  \E c \in Calls :
    /\ pc[c] = "done"
    /\ outcome[c] = Returned("loadIndex", cachedIndex, "remote")
    /\ cachedIndex # Null
    /\ clock - lastFetchTime < CACHE_TTL

\* C5: if the remote fetch succeeded but creating the cache directory or
\* writing the cache file failed, loadIndex still returns the fetched index and
\* stores it (with the call's timestamp), exactly as after a successful write.
C5_WriteFailureSwallowed ==
  [][\A c \in Calls :
       (Resumes(c) /\ RemoteOk(c) /\ wr[c] \in {"mkdirfail", "writefail"})
         => /\ outcome'[c] = Returned("loadIndex", RemoteIndexOf(c), "remote")
            /\ cachedIndex' = RemoteIndexOf(c)
            /\ lastFetchTime' = now[c]]_vars

C5_Witness ==
  \E c \in Calls :
    /\ pc[c] = "done"
    /\ outcome[c] = Returned("loadIndex", cachedIndex, "remote")
    /\ ops[c] \in {<<"fetch", "mkdirfail">>, <<"fetch", "writefail">>}
    /\ userFile # Stringify(cachedIndex)

\* C6: on remote failure (a) the bundled index is returned only when the remote
\* fetch and the per-user file both failed to yield an index, and (b) a per-user
\* file that yields no index never keeps a valid bundled copy from being adopted.
C6_BundledAfterUser ==
  [][\A c \in Calls :
       Resumes(c) =>
         /\ outcome'[c].via = "bundled" => (~RemoteOk(c) /\ ~Yields(userFile))
         /\ (~RemoteOk(c) /\ ~Yields(userFile) /\ Yields(bundledFile))
              => /\ outcome'[c] = Returned("loadIndex", IndexIn(bundledFile), "bundled")
                 /\ cachedIndex' = IndexIn(bundledFile)]_vars

C8_PersistedCopySurvivesRestart ==
  [][\A c \in Calls :
       (Resumes(c) /\ ~RemoteOk(c) /\ cachedIndex = Null
          /\ persisted.index # Null /\ persisted.restarted)
         => outcome'[c] = Returned("loadIndex", persisted.index, "user")]_vars

\* C9: in every state where the memory cache already holds an index, fresh or
\* stale, loadIndex returns an index rather than throwing.
C9_NoThrowWithMemoryIndex ==
  [][\A c \in Calls :
       /\ (Enters(c) /\ cachedIndex # Null /\ pc'[c] = "done") => outcome'[c].kind = "ok"
       /\ (Resumes(c) /\ held[c] # Null) => outcome'[c].kind = "ok"]_vars

\* C10: under any interleaving of concurrent calls the pair (cachedIndex,
\* lastFetchTime) is the index and the timestamp that one single call stored
\* together (or the index loadIndexSync adopted into the empty initial pair).
C10_PairWrittenByOneCall ==
  /\ cachedIndex = lastStore.index
  /\ lastFetchTime = lastStore.time

\* A second call, entered before the pair was last stored, is about to store a
\* different index with a different timestamp over it.
C10_Witness ==
  \E c \in Calls :
    /\ pc[c] = "resume"
    /\ remoteIndex[c] \notin {Null, cachedIndex}
    /\ cachedIndex # Null
    /\ held[c] = Null
    /\ now[c] # lastFetchTime

\* Call c takes the step that is one whole call of loadIndexSync().
RunsSync(c) == pc[c] = "idle" /\ outcome'[c].fn = "loadIndexSync"

\* C11: loadIndexSync performs no network I/O and ends in one step; it returns
\* the in-memory index if there is one, whatever its age; otherwise it adopts
\* and returns the first disk source that yields an index (per-user file, then
\* bundled copy); it throws exactly when neither memory nor a disk source
\* provides an index.
C11_SyncAccessor ==
  [][\A c \in Calls :
       RunsSync(c) =>
         /\ pc'[c] = "done"
         /\ \A i \in 1..Len(ops'[c]) : ops'[c][i] \in {"readUser", "readBundled"}
         /\ cachedIndex # Null =>
              /\ outcome'[c] = Returned("loadIndexSync", cachedIndex, "memory")
              /\ ops'[c] = <<>>
         /\ (cachedIndex = Null /\ Yields(userFile)) =>
              /\ outcome'[c] = Returned("loadIndexSync", IndexIn(userFile), "user")
              /\ cachedIndex' = IndexIn(userFile)
         /\ (cachedIndex = Null /\ ~Yields(userFile) /\ Yields(bundledFile)) =>
              /\ outcome'[c] = Returned("loadIndexSync", IndexIn(bundledFile), "bundled")
              /\ cachedIndex' = IndexIn(bundledFile)
         /\ outcome'[c].kind = "err"
              <=> (cachedIndex = Null /\ ~Yields(userFile) /\ ~Yields(bundledFile))]_vars

(***************************************************************************)
(* The query engine: searchDocs, getDocContent and listApis, each a pure   *)
(* function of the snapshot that loadIndex delivered and of its arguments. *)
(*                                                                         *)
(* A string is the sequence of its characters (UTF-16 code units), each a  *)
(* one-character string.  An entry returned by a query is the very object  *)
(* of index.entries: it is named by its position in index.entries.         *)
(***************************************************************************)

\* ---- bounds of the query inputs ----------------------------------------------
MaxEntries == 2
MaxQueryLen == 3
MaxLimit == 2

\* ---- strings --------------------------------------------------------------
\* The characters that \s of the split pattern matches, among those used.
Whitespace == {" "}
\* The characters of queries.
QueryChars == {"a", "B"} \cup Whitespace

\* The UTF-16 code unit of a character.
CodeUnit(ch) ==
  CASE ch = " " -> 32 [] ch = "1" -> 49 [] ch = "2" -> 50
    [] ch = "A" -> 65 [] ch = "B" -> 66 [] ch = "X" -> 88
    [] ch = "a" -> 97 [] ch = "b" -> 98 [] ch = "x" -> 120

\* String.prototype.toLowerCase.
LowerChar(ch) ==
  CASE ch = "A" -> "a" [] ch = "B" -> "b" [] ch = "X" -> "x" [] OTHER -> ch
toLowerCase(s) == [i \in 1..Len(s) |-> LowerChar(s[i])]

\* String.prototype.includes.
includes(s, t) ==
  \E i \in 0..(Len(s) - Len(t)) : SubSeq(s, i + 1, i + Len(t)) = t

\* s < t in the order of Array.prototype.sort() without a comparator: by code
\* units, a proper prefix first.
StringLess(s, t) ==
  \E k \in 1..(Len(t)) :
    /\ k <= Len(s) + 1
    /\ \A j \in 1..(k - 1) : s[j] = t[j]
    /\ k = Len(s) + 1 \/ CodeUnit(s[k]) < CodeUnit(t[k])

\* Array.prototype.join.
RECURSIVE join(_, _)
join(parts, sep) ==
  IF parts = <<>> THEN <<>>
  ELSE IF Len(parts) = 1 THEN parts[1]
  ELSE parts[1] \o sep \o join(Tail(parts), sep)

\* String.prototype.split(/\s+/): the pieces between the maximal runs of
\* whitespace, the empty pieces at the two ends included.
RECURSIVE splitFrom(_, _, _)
splitFrom(s, i, piece) ==
  IF i > Len(s) THEN <<piece>>
  ELSE IF s[i] \in Whitespace
    THEN LET j == CHOOSE k \in (i + 1)..(Len(s) + 1) :
                    /\ \A m \in i..(k - 1) : s[m] \in Whitespace
                    /\ k = Len(s) + 1 \/ s[k] \notin Whitespace
         IN <<piece>> \o splitFrom(s, j, <<>>)
    ELSE splitFrom(s, i + 1, Append(piece, s[i]))
split(s) == splitFrom(s, 1, <<>>)

\* Boolean(t) of a string t.
Boolean(t) == t # <<>>

\* Array.prototype.slice(0, end).
slice(s, end) ==
  LET n == Len(s)
      e == IF end < 0 THEN (IF n + end < 0 THEN 0 ELSE n + end)
           ELSE (IF end > n THEN n ELSE end)
  IN SubSeq(s, 1, e)

\* ---- searchDocs -------------------------------------------------------------
\* The default value of the parameter `limit`.
DefaultLimit == 20

\* queryTerms when the empty pieces of the split are kept.
queryTermsUnfiltered(query) == split(toLowerCase(query))

\* The local queryTerms of searchDocs.
queryTerms(query) == SelectSeq(split(toLowerCase(query)), Boolean)

\* The local searchableText of the scoring callback.
searchableText(entry) ==
  toLowerCase(join(<<entry.title, entry.description, entry.path,
                     entry.vendor, entry.model, entry.capability>>, <<" ">>))

\* One round of the loop over the terms when the tests are chained by else.
scoreTermFirstMatch(entry, term, score) ==
  IF includes(toLowerCase(entry.model), term) THEN score + 10
  ELSE IF includes(toLowerCase(entry.vendor), term) THEN score + 8
  ELSE IF includes(toLowerCase(entry.title), term) THEN score + 5
  ELSE IF includes(toLowerCase(entry.capability), term) THEN score + 4
  ELSE IF includes(toLowerCase(entry.description), term) THEN score + 2
  ELSE IF includes(searchableText(entry), term) THEN score + 1
  ELSE score

\* One round of the loop when the last test assigns instead of adding.
scoreTermAssigns(entry, term, score) ==
  LET s1 == IF includes(toLowerCase(entry.model), term) THEN score + 10 ELSE score
      s2 == IF includes(toLowerCase(entry.vendor), term) THEN s1 + 8 ELSE s1
      s3 == IF includes(toLowerCase(entry.title), term) THEN s2 + 5 ELSE s2
      s4 == IF includes(toLowerCase(entry.capability), term) THEN s3 + 4 ELSE s3
      s5 == IF includes(toLowerCase(entry.description), term) THEN s4 + 2 ELSE s4
  IN IF includes(searchableText(entry), term) THEN 1 ELSE s5

\* One round of the loop over the terms: the six tests, one after the other,
\* each adding to the score.
scoreTerm(entry, term, score) ==
  LET s1 == IF includes(toLowerCase(entry.model), term) THEN score + 10 ELSE score
      s2 == IF includes(toLowerCase(entry.vendor), term) THEN s1 + 8 ELSE s1
      s3 == IF includes(toLowerCase(entry.title), term) THEN s2 + 5 ELSE s2
      s4 == IF includes(toLowerCase(entry.capability), term) THEN s3 + 4 ELSE s3
      s5 == IF includes(toLowerCase(entry.description), term) THEN s4 + 2 ELSE s4
  IN IF includes(searchableText(entry), term) THEN s5 + 1 ELSE s5

\* The loop over the terms, from the i-th on.
RECURSIVE scoreTerms(_, _, _, _)
scoreTerms(entry, terms, i, score) ==
  IF i > Len(terms) THEN score
  ELSE scoreTerms(entry, terms, i + 1, scoreTerm(entry, terms[i], score))

\* The score that the scoring callback gives an entry.
scoreOf(entry, query) == scoreTerms(entry, queryTerms(query), 1, 0)

\* The local `scored`: every entry with its score.
scored(idx, query) ==
  [i \in 1..Len(idx.entries) |->
     [entry |-> i, score |-> scoreOf(idx.entries[i], query)]]

\* The callback of filter.
keep(s) == s.score > 0

\* The comparator when it orders by ascending score.
compareAscending(a, b) == a.score - b.score
\* The comparator of sort.
compare(a, b) == b.score - a.score

\* x is put in front of the elements it ties with.
insertBeforeTies(sorted, x) ==
  LET k == Cardinality({i \in 1..Len(sorted) : compare(sorted[i], x) < 0})
  IN SubSeq(sorted, 1, k) \o <<x>> \o SubSeq(sorted, k + 1, Len(sorted))

\* Array.prototype.sort is stable: x, which came after the elements of
\* `sorted` in the array, stays behind those that the comparator does not
\* put after it.
insert(sorted, x) ==
  LET k == Cardinality({i \in 1..Len(sorted) : compare(sorted[i], x) <= 0})
  IN SubSeq(sorted, 1, k) \o <<x>> \o SubSeq(sorted, k + 1, Len(sorted))

RECURSIVE sortFrom(_, _, _)
sortFrom(s, i, sorted) ==
  IF i > Len(s) THEN sorted ELSE sortFrom(s, i + 1, insert(sorted, s[i]))
sort(s) == sortFrom(s, 1, <<>>)

\* slice(0, limit) when the limit is not applied.
truncateNone(s, limit) == s
\* slice(0, limit) of searchDocs.
truncate(s, limit) == slice(s, limit)

\* What searchDocs returns, given its local `scored`: the entries, in order.
returned(scoredEntries, limit) ==
  LET found == truncate(sort(SelectSeq(scoredEntries, keep)), limit)
  IN [i \in 1..Len(found) |-> found[i].entry]

\* index.entries is an array: map, find, filter and for-of on it do not throw.
hasEntries(idx) == "entries" \in DOMAIN idx
\* The TypeError of a method call on, or an iteration of, undefined.
TypeError == [NoResult EXCEPT !.kind = "err", !.error = "TypeError"]

\* searchDocs(query, limit).
searchDocs(idx, query, limit) ==
  IF hasEntries(idx)
    THEN [NoResult EXCEPT !.kind = "ok",
                          !.hits = returned(scored(idx, query), limit)]
    ELSE TypeError

\* ---- getDocContent ------------------------------------------------------------
\* The callback of find when it compares without regard to case.
samePathIgnoringCase(e, docPath) == toLowerCase(e.path) = toLowerCase(docPath)
\* The callback of find.
samePath(e, docPath) == e.path = docPath

\* Array.prototype.find: the first entry that the callback accepts (0: none).
find(idx, docPath) ==
  LET found == {i \in 1..Len(idx.entries) : samePath(idx.entries[i], docPath)}
  IN IF found = {} THEN 0 ELSE CHOOSE i \in found : \A j \in found : i <= j

\* getDocContent(docPath): the entry found, or the error thrown.
getDocContent(idx, docPath) ==
  IF ~hasEntries(idx) THEN TypeError
  ELSE LET entry == find(idx, docPath)
       IN IF entry = 0
            THEN [NoResult EXCEPT !.kind = "err", !.error = "Document not found"]
            ELSE [NoResult EXCEPT !.kind = "ok", !.hits = <<entry>>]

\* ---- listApis -------------------------------------------------------------------
\* The keys of a Map, or the members of a Set, in insertion order: the first
\* occurrences of the values added.
RECURSIVE insertionOrder(_, _, _)
insertionOrder(s, i, seen) ==
  IF i > Len(s) THEN seen
  ELSE insertionOrder(s, i + 1,
         IF \E j \in 1..Len(seen) : seen[j] = s[i] THEN seen ELSE Append(seen, s[i]))
keysOf(s) == insertionOrder(s, 1, <<>>)

\* Array.from of a Set without the sort.
sortStringsOmitted(s) == s

\* Array.prototype.sort() of strings.
RECURSIVE sortStringsFrom(_, _, _)
sortStringsFrom(s, i, sorted) ==
  IF i > Len(s) THEN sorted
  ELSE LET k == Cardinality({j \in 1..Len(sorted) : ~StringLess(s[i], sorted[j])})
       IN sortStringsFrom(s, i + 1,
            SubSeq(sorted, 1, k) \o <<s[i]>> \o SubSeq(sorted, k + 1, Len(sorted)))
sortStrings(s) == sortStringsFrom(s, 1, <<>>)

\* Number.prototype.toString of a natural number.
RECURSIVE decimal(_)
decimal(n) == IF n < 10 THEN <<ToString(n)>> ELSE decimal(n \div 10) \o <<ToString(n % 10)>>

\* The template `${size} models available`.
modelsAvailable(size) ==
  decimal(size) \o <<" ", "m", "o", "d", "e", "l", "s", " ",
                      "a", "v", "a", "i", "l", "a", "b", "l", "e">>

\* The callback of the vendor filter when the category is not tested.
isVendorEntryAnyCategory(e, vendor) == toLowerCase(e.vendor) = toLowerCase(vendor)
\* The callback of the vendor filter.
isVendorEntry(e, vendor) ==
  toLowerCase(e.vendor) = toLowerCase(vendor) /\ e.category = "api"

\* The local vendorEntries.
vendorEntries(idx, vendor) ==
  SelectSeq(idx.entries, LAMBDA e : isVendorEntry(e, vendor))

\* The members of modelMap.get(model), in insertion order.
capabilitiesOf(ves, model) ==
  LET mine == SelectSeq(ves, LAMBDA e : e.model = model /\ Boolean(e.capability))
  IN keysOf([i \in 1..Len(mine) |-> mine[i].capability])

\* What the branch of a given vendor returns when it lists the vendor of the
\* first matching entry.
vendorsEchoFirstEntry(ves, vendor) ==
  <<IF ves # <<>> /\ Boolean(ves[1].vendor) THEN ves[1].vendor ELSE vendor>>
\* The vendors that the branch of a given vendor returns.
vendorsEcho(ves, vendor) == <<vendor>>

\* The branch of listApis for a vendor.
listVendor(idx, vendor) ==
  LET ves == vendorEntries(idx, vendor)
      models == keysOf([i \in 1..Len(ves) |-> ves[i].model])
  IN [NoResult EXCEPT
        !.kind = "ok",
        !.vendors = vendorsEcho(ves, vendor),
        !.apis = [k \in 1..Len(models) |->
                    [vendor |-> IF ves # <<>> /\ Boolean(ves[1].vendor)
                                  THEN ves[1].vendor ELSE vendor,
                     model |-> models[k],
                     capabilities |-> sortStrings(capabilitiesOf(ves, models[k]))]]]

\* vendorModels.get(v) when every entry of the vendor adds a member.
vendorModelsPerEntry(apiEntries, v) ==
  {j \in 1..Len(apiEntries) : apiEntries[j].vendor = v}
\* The Set vendorModels.get(v): the models of the entries of vendor v.
vendorModels(apiEntries, v) ==
  {apiEntries[i].model :
     i \in {j \in 1..Len(apiEntries) : apiEntries[j].vendor = v}}

\* The branch of listApis for all vendors.
listAll(idx) ==
  LET apiEntries == SelectSeq(idx.entries,
                              LAMBDA e : Boolean(e.vendor) /\ e.category = "api")
      vendorKeys == keysOf([i \in 1..Len(apiEntries) |-> apiEntries[i].vendor])
  IN [NoResult EXCEPT
        !.kind = "ok",
        !.vendors = idx.vendors,
        !.apis = [k \in 1..Len(vendorKeys) |->
                    [vendor |-> vendorKeys[k],
                     model |-> modelsAvailable(
                                 Cardinality(vendorModels(apiEntries, vendorKeys[k]))),
                     capabilities |-> <<>>]]]

\* listApis(vendor); `given` is FALSE when the argument is undefined.
listApis(idx, given, vendor) ==
  IF ~hasEntries(idx) THEN TypeError
  ELSE IF given /\ Boolean(vendor) THEN listVendor(idx, vendor) ELSE listAll(idx)

\* ---- the snapshots and the arguments ---------------------------------------
\* Entries (DocEntry): their category is one of the category names, the other
\* fields are strings.
EntryPool ==
  { [path |-> <<"1">>, title |-> <<"x">>, description |-> <<"x">>,
     vendor |-> <<"X">>, model |-> <<"A", "b">>, format |-> <<"x">>,
     capability |-> <<"b">>, category |-> "api", content |-> <<"x">>],
    [path |-> <<"A">>, title |-> <<"B">>, description |-> <<"x">>,
     vendor |-> <<"x">>, model |-> <<"A", "b">>, format |-> <<"x">>,
     capability |-> <<"B">>, category |-> "api", content |-> <<"x">>],
    [path |-> <<"a", "b">>, title |-> <<"x">>, description |-> <<"a", " ", "b">>,
     vendor |-> <<"x">>, model |-> <<"b">>, format |-> <<"x">>,
     capability |-> <<>>, category |-> "api", content |-> <<"x">>],
    [path |-> <<"b", " ">>, title |-> <<"a">>, description |-> <<"x">>,
     vendor |-> <<"a", "b">>, model |-> <<"x">>, format |-> <<"x">>,
     capability |-> <<"a">>, category |-> "guide", content |-> <<>>],
    [path |-> <<"a">>, title |-> <<"x">>, description |-> <<"x">>,
     vendor |-> <<>>, model |-> <<>>, format |-> <<"b">>,
     capability |-> <<>>, category |-> "api", content |-> <<"a", "b">>] }

\* The vendors list that buildIndex derives from the entries.
vendorsOf(es) ==
  LET named == SelectSeq(es, LAMBDA e : Boolean(e.vendor))
  IN sortStrings(keysOf([i \in 1..Len(named) |-> named[i].vendor]))

\* Snapshots as buildIndex makes them, of up to MaxEntries entries.
BuiltIndexes ==
  {[entries |-> es, vendors |-> vendorsOf(es)] :
     es \in UNION {[1..n -> EntryPool] : n \in 0..MaxEntries}}
\* Snapshots with more entries than the default limit: two entries in turn.
LongIndexes ==
  LET e2 == CHOOSE e \in EntryPool : e.path = <<"a", "b">>
  IN {[entries |-> [i \in 1..(DefaultLimit + 1) |-> IF i % 2 = 1 THEN e1 ELSE e2],
       vendors |-> vendorsOf(<<e1, e2>>)] : e1 \in EntryPool}
\* Snapshots that a remote server delivered: their vendors list is whatever
\* the JSON holds.
RemoteIndexes ==
  {[entries |-> es, vendors |-> <<<<"x">>, <<"a">>>>] :
     es \in UNION {[1..n -> EntryPool] : n \in 0..1}}
DocsIndexes == BuiltIndexes \cup LongIndexes \cup RemoteIndexes
\* A body that is JSON and truthy but no DocsIndex, as a server answering with
\* an error object sends it: fetchRemoteIndex casts the parsed body to
\* DocsIndex without looking at it, and loadIndex caches and returns it.
NonIndexes == {[message |-> <<"a">>]}
\* What `await loadIndex()` can deliver to a query function.
Snapshots == DocsIndexes \cup NonIndexes

\* The arguments of the calls.
Queries == UNION {[1..n -> QueryChars] : n \in 0..MaxQueryLen}
Limits == 0..MaxLimit
DocPaths ==
  {e.path : e \in EntryPool} \cup {<<>>, <<"b">>, <<"a", " ">>, <<"A", "b">>}
VendorNames ==
  {<<>>, <<"x">>, <<"X">>, <<"a", "b">>, <<"A", "B">>, <<"b">>}

\* ---- the calls of the query functions ------------------------------------------
\* The state of index acquisition while the query functions are studied: the
\* bundled copy was adopted by the loadIndex call of the query function.
loader == <<clock, ticks, cachedIndex, lastFetchTime, cacheDir, userFile,
            bundledFile, pc, now, held, resp, wr, remoteIndex, outcome, ops,
            lastStore, diskAdopt, persisted>>

QueryInit ==
  /\ clock = StartClock
  /\ ticks = 0
  /\ cachedIndex = 1
  /\ lastFetchTime = StartClock
  /\ userFile = "absent"
  /\ cacheDir = FALSE
  /\ bundledFile = Stringify(1)
  /\ pc = [c \in Calls |-> "idle"]
  /\ now = [c \in Calls |-> 0]
  /\ held = [c \in Calls |-> Null]
  /\ resp = [c \in Calls |-> "none"]
  /\ wr = [c \in Calls |-> "none"]
  /\ remoteIndex = [c \in Calls |-> Null]
  /\ outcome = [c \in Calls |-> Pending]
  /\ ops = [c \in Calls |-> <<>>]
  /\ lastStore = [index |-> 1, time |-> StartClock]
  /\ diskAdopt = NoAdopt
  /\ persisted = NoneDurable
  /\ docsIndex \in Snapshots
  /\ call = NoCall
  /\ result = NoResult
  /\ NotBuilding

\* searchDocs(query, limit), and searchDocs(query) when `given` is FALSE.
SearchDocs(query, given, limit) ==
  /\ call = NoCall
  /\ call' = [NoCall EXCEPT !.fn = "searchDocs", !.query = query,
                            !.limitGiven = given,
                            !.limit = IF given THEN limit ELSE DefaultLimit,
                            !.scored = IF hasEntries(docsIndex)
                                         THEN scored(docsIndex, query)
                                         ELSE <<>>]
  /\ result' = IF hasEntries(docsIndex)
                 THEN [NoResult EXCEPT !.kind = "ok",
                                       !.hits = returned(call'.scored, call'.limit)]
                 ELSE TypeError
  /\ UNCHANGED <<docsIndex, loader, bvars>>

GetDocContent(docPath) ==
  /\ call = NoCall
  /\ call' = [NoCall EXCEPT !.fn = "getDocContent", !.docPath = docPath]
  /\ result' = getDocContent(docsIndex, docPath)
  /\ UNCHANGED <<docsIndex, loader, bvars>>

ListApis(given, vendor) ==
  /\ call = NoCall
  /\ call' = [NoCall EXCEPT !.fn = "listApis", !.vendorGiven = given,
                            !.vendor = vendor]
  /\ result' = listApis(docsIndex, given, vendor)
  /\ UNCHANGED <<docsIndex, loader, bvars>>

\* The caller has taken the result.
Return ==
  /\ call # NoCall
  /\ call' = NoCall
  /\ result' = NoResult
  /\ UNCHANGED <<docsIndex, loader, bvars>>

QueryNext ==
  \/ \E query \in Queries : \E limit \in Limits : SearchDocs(query, TRUE, limit)
  \/ \E query \in Queries : SearchDocs(query, FALSE, 0)
  \/ \E docPath \in DocPaths : GetDocContent(docPath)
  \/ \E vendor \in VendorNames : ListApis(TRUE, vendor)
  \/ ListApis(FALSE, <<>>)
  \/ Return

SpecQuery == QueryInit /\ [][QueryNext]_vars

\* ---- vocabulary of the properties of the query engine -----------------------
\* The snapshot the query function works on is a DocsIndex.
OnDocsIndex == "entries" \in DOMAIN docsIndex
Searching == call.fn = "searchDocs" /\ OnDocsIndex
Entries == docsIndex.entries
Positions == 1..Len(Entries)

\* The terms of a query as the specification words them: the maximal runs of
\* characters other than whitespace, named by their first and last position.
TermRuns(q) ==
  {r \in (1..Len(q)) \X (1..Len(q)) :
     /\ r[1] <= r[2]
     /\ \A k \in r[1]..r[2] : q[k] \notin Whitespace
     /\ r[1] = 1 \/ q[r[1] - 1] \in Whitespace
     /\ r[2] = Len(q) \/ q[r[2] + 1] \in Whitespace}
\* The lowercase term of a run of the query.
TermOf(q, r) == toLowerCase(SubSeq(q, r[1], r[2]))
\* The term is a substring of the text.
Occurs(term, text) ==
  \E i \in 1..(Len(text) - Len(term) + 1) : SubSeq(text, i, i + Len(term) - 1) = term
\* How many of the terms are substrings of the text; `terms` maps the runs
\* of the query to their terms, so that a term written twice counts twice.
Matches(terms, text) ==
  Cardinality({r \in DOMAIN terms : Occurs(terms[r], text)})

\* The score that the specification gives entry e for query q.
ClaimedScore(e, q) ==
  LET terms == [r \in TermRuns(q) |-> TermOf(q, r)]
      model == toLowerCase(e.model)
      vendor == toLowerCase(e.vendor)
      title == toLowerCase(e.title)
      capability == toLowerCase(e.capability)
      description == toLowerCase(e.description)
      path == toLowerCase(e.path)
      anywhere == {r \in DOMAIN terms :
                     \E text \in {title, description, path, vendor, model, capability} :
                       Occurs(terms[r], text)}
  IN 10 * Matches(terms, model) + 8 * Matches(terms, vendor)
     + 5 * Matches(terms, title) + 4 * Matches(terms, capability)
     + 2 * Matches(terms, description) + Cardinality(anywhere)

ScoreAt(i) == call.scored[i].score
\* The entries of positive score, and those that the search returned.
Positive == {i \in Positions : ScoreAt(i) > 0}
Hits == {result.hits[k] : k \in 1..Len(result.hits)}
Smaller(a, b) == IF a < b THEN a ELSE b

\* C13: the result of searchDocs holds no entry of score 0, is ordered by
\* non-increasing score, and is a prefix of length min(limit, number of
\* entries of positive score) of the entries of positive score: its entries
\* are distinct, and no entry left out has a strictly higher score than an
\* entry in it.
C13_RankedPrefix ==
  Searching =>
    /\ Hits \subseteq Positive
    /\ \A k \in 1..(Len(result.hits) - 1) :
         ScoreAt(result.hits[k]) >= ScoreAt(result.hits[k + 1])
    /\ Len(result.hits) = Smaller(call.limit, Cardinality(Positive))
    /\ Cardinality(Hits) = Len(result.hits)
    /\ \A i \in Positive \ Hits : \A j \in Hits : ScoreAt(i) <= ScoreAt(j)

\* The limit cuts the result: an entry of positive but lower score is left
\* out, and the result is not in index order.
C13_Witness ==
  /\ Searching
  /\ Len(result.hits) = call.limit
  /\ \E i \in Positive \ Hits : \E j \in Hits : ScoreAt(i) < ScoreAt(j)
  /\ \E k \in 1..(Len(result.hits) - 1) : result.hits[k] > result.hits[k + 1]

\* C14: the sequence that searchDocs returns is never longer than limit, and
\* limit is 20 when the caller gives none.
C14_AtMostLimit ==
  Searching =>
    /\ Len(result.hits) <= call.limit
    /\ ~call.limitGiven => call.limit = 20

\* The default limit cuts the result of a search without limit to 20 entries.
C14_Witness ==
  /\ Searching
  /\ ~call.limitGiven
  /\ Cardinality(Positive) > 20
  /\ Len(result.hits) = 20

\* Entry i ranks before entry j: by higher score, and by index order when
\* the scores are equal.
RanksBefore(i, j) ==
  ScoreAt(i) > ScoreAt(j) \/ (ScoreAt(i) = ScoreAt(j) /\ i < j)

\* C15: searchDocs is deterministic, with ties in index order: the sequence
\* returned is fixed by the index, the query and the limit alone, being the
\* first min(limit, number of entries of positive score) entries of positive
\* score in the ranking by descending score and, for equal scores, by
\* ascending position in the index; two calls with equal query and limit on
\* one snapshot therefore return identical sequences.
C15_TiesInIndexOrder ==
  Searching =>
    /\ Hits \subseteq Positive
    /\ Len(result.hits) = Smaller(call.limit, Cardinality(Positive))
    /\ \A k \in 1..(Len(result.hits) - 1) :
         RanksBefore(result.hits[k], result.hits[k + 1])
    /\ \A i \in Positive \ Hits : \A j \in Hits : RanksBefore(j, i)

\* Entries of equal score are returned, one entry of that score is cut off by
\* the limit, and an entry of higher score has overtaken earlier entries.
C15_Witness ==
  /\ Searching
  /\ \E k \in 1..(Len(result.hits) - 1) :
       ScoreAt(result.hits[k]) = ScoreAt(result.hits[k + 1])
  /\ \E k \in 1..(Len(result.hits) - 1) : result.hits[k] > result.hits[k + 1]
  /\ \E i \in Positive \ Hits : \E j \in Hits : ScoreAt(i) = ScoreAt(j)

\* The query holds no character other than whitespace.
Blank(q) == \A k \in 1..Len(q) : q[k] \in Whitespace

\* C16: for an empty or whitespace-only query the term list of searchDocs is
\* empty, every entry scores 0, and searchDocs returns the empty sequence
\* without an error, whatever the index.
C16_BlankQueryFindsNothing ==
  (Searching /\ Blank(call.query)) =>
    /\ queryTerms(call.query) = <<>>
    /\ \A i \in Positions : ScoreAt(i) = 0
    /\ result.kind = "ok"
    /\ result.hits = <<>>

\* A query of whitespace only has searched an index that has entries.
C16_Witness ==
  /\ Searching
  /\ Blank(call.query)
  /\ call.query # <<>>
  /\ Positions # {}
  /\ result.kind = "ok"
  /\ result.hits = <<>>

\* The query is `shorter`, a whitespace character and the one term `term`.
Appends(q, shorter, term) ==
  /\ term # <<>>
  /\ \A k \in 1..Len(term) : term[k] \notin Whitespace
  /\ \E w \in Whitespace : q = shorter \o <<w>> \o term
\* The ways to read the running query as a shorter query with a term appended.
Appended ==
  {<<SubSeq(call.query, 1, k - 1), SubSeq(call.query, k + 1, Len(call.query))>> :
     k \in 1..Len(call.query)}
\* The term matches the model of the entry as searchDocs matches.
InModel(term, e) == Occurs(toLowerCase(term), toLowerCase(e.model))

\* C17: appending one more term to a query never decreases the score of an
\* entry, and appending a term that is a substring of the model of the entry
\* (the search matches without regard to case) increases it by at least 10.
C17_ScoreMonotone ==
  Searching =>
    \A a \in Appended :
      Appends(call.query, a[1], a[2]) =>
        LET before == [e \in {Entries[i] : i \in Positions} |-> scoreOf(e, a[1])]
        IN \A i \in Positions :
             /\ ScoreAt(i) >= before[Entries[i]]
             /\ InModel(a[2], Entries[i]) => ScoreAt(i) >= before[Entries[i]] + 10

\* A term is appended to a query that already matches: it matches the model
\* of one entry, whose score grows by 10 or more, and no field of another,
\* whose score stays.
C17_Witness ==
  /\ Searching
  /\ \E a \in Appended :
       /\ Appends(call.query, a[1], a[2])
       /\ \E i, j \in Positions :
            /\ scoreOf(Entries[i], a[1]) > 0
            /\ InModel(a[2], Entries[i])
            /\ ScoreAt(i) >= scoreOf(Entries[i], a[1]) + 10
            /\ scoreOf(Entries[j], a[1]) > 0
            /\ ScoreAt(j) = scoreOf(Entries[j], a[1])

Getting == call.fn = "getDocContent" /\ OnDocsIndex
\* The entries whose path is the path asked for, character by character.
WithPath == {i \in Positions : Entries[i].path = call.docPath}

\* C18: getDocContent(p) returns an entry of the index whose path is exactly
\* p (no case folding, no trimming, no prefix matching) whenever there is
\* one, throws 'Document not found' exactly when there is none, and never
\* returns an entry of another path.
C18_ExactPathLookup ==
  Getting =>
    /\ WithPath # {} => (result.kind = "ok" /\ result.error = "")
    /\ WithPath = {} => (result.kind = "err" /\ result.error = "Document not found")
    /\ result.kind = "ok" => (Len(result.hits) = 1 /\ result.hits[1] \in WithPath)
    /\ result.kind = "err" => result.hits = <<>>

\* The entry of the path asked for is returned although an entry before it
\* has the same path up to case.
C18_Witness ==
  /\ Getting
  /\ result.kind = "ok"
  /\ result.hits[1] \in WithPath
  /\ \E j \in 1..(result.hits[1] - 1) :
       /\ Entries[j].path # call.docPath
       /\ toLowerCase(Entries[j].path) = toLowerCase(call.docPath)

\* listApis runs with a vendor argument; the argument is not the empty string.
ListingVendor == call.fn = "listApis" /\ call.vendorGiven /\ OnDocsIndex
Named == call.vendor # <<>>
\* The entries of category api whose vendor is the vendor asked for, up to case.
Matching ==
  {i \in Positions :
     /\ Entries[i].category = "api"
     /\ toLowerCase(Entries[i].vendor) = toLowerCase(call.vendor)}
\* The non-empty capability values of the matching entries of a model.
Capabilities(model) ==
  {Entries[i].capability : i \in {j \in Matching : Entries[j].model = model}}
    \ {<<>>}

\* The apis returned hold exactly one record for every model of the matching
\* entries, and the capabilities of a record are the non-empty capability
\* values of the matching entries of its model, in strictly ascending order.
OneRecordPerModel ==
  LET apis == result.apis
      models == {Entries[i].model : i \in Matching}
  IN /\ result.kind = "ok"
     /\ {apis[k].model : k \in 1..Len(apis)} = models
     /\ Len(apis) = Cardinality(models)
     /\ \A k \in 1..Len(apis) :
          LET caps == apis[k].capabilities
          IN /\ {caps[n] : n \in 1..Len(caps)} = Capabilities(apis[k].model)
             /\ \A n \in 1..(Len(caps) - 1) : StringLess(caps[n], caps[n + 1])

\* C19 as stated: whenever a vendor is given, listApis returns exactly one
\* apis record per distinct model among the entries of category api whose
\* vendor equals it case-insensitively, each with the ascending-sorted list,
\* without duplicates and without empty strings, of the capability values of
\* the matching entries of that model; other entries contribute nothing.
C19_OneRecordPerModelOfGivenVendor == ListingVendor => OneRecordPerModel

\* C19, amended: the same, whenever the vendor given is not the empty string.
C19_OneRecordPerModelOfNamedVendor == (ListingVendor /\ Named) => OneRecordPerModel

\* Two entries of one model match a vendor written in another case; their two
\* capabilities are returned in one record, in another order than the index
\* holds them.
C19_Witness ==
  /\ ListingVendor
  /\ Named
  /\ \E i \in Matching : Entries[i].vendor # call.vendor
  /\ Len(result.apis) = 1
  /\ Len(result.apis[1].capabilities) = 2
  /\ \E i, j \in Matching :
       /\ i < j
       /\ Entries[i].capability = result.apis[1].capabilities[2]
       /\ Entries[j].capability = result.apis[1].capabilities[1]

\* The vendor given is returned as the one element of vendors, and the apis
\* are empty when no entry matches.
EchoesVendor ==
  /\ result.kind = "ok"
  /\ result.vendors = <<call.vendor>>
  /\ Matching = {} => result.apis = <<>>

\* C20 as stated: listApis(v) for a vendor that matches no api entry returns
\* normally, with empty apis and vendors = [v], and vendors is [v] verbatim
\* whenever a vendor is given.
C20_EchoesGivenVendor == ListingVendor => EchoesVendor

\* C20, amended: the same, whenever the vendor given is not the empty string.
C20_EchoesNamedVendor == (ListingVendor /\ Named) => EchoesVendor

\* A vendor that only an entry of another category has, written in another
\* case, is asked for: the apis are empty and vendors echoes the argument.
C20_Witness ==
  /\ ListingVendor
  /\ Named
  /\ Matching = {}
  /\ \E i \in Positions :
       /\ Entries[i].vendor # call.vendor
       /\ toLowerCase(Entries[i].vendor) = toLowerCase(call.vendor)
  /\ result.apis = <<>>
  /\ result.vendors = <<call.vendor>>

\* listApis runs without a vendor argument.
ListingAll == call.fn = "listApis" /\ ~call.vendorGiven /\ OnDocsIndex
ApiEntries == {i \in Positions : Entries[i].category = "api"}
\* The distinct models of the api entries of a vendor.
ModelsOf(v) == {Entries[i].model : i \in {j \in ApiEntries : Entries[j].vendor = v}}

\* The apis returned hold exactly one record for every vendor of `vs`,
\* whose model field states how many distinct models the api entries of the
\* vendor have and whose capabilities are empty; the vendors returned are the
\* vendors list of the index.
OneSummaryPerVendor(vs) ==
  LET apis == result.apis
  IN /\ result.kind = "ok"
     /\ {apis[k].vendor : k \in 1..Len(apis)} = vs
     /\ Len(apis) = Cardinality(vs)
     /\ \A k \in 1..Len(apis) :
          /\ apis[k].model = modelsAvailable(Cardinality(ModelsOf(apis[k].vendor)))
          /\ apis[k].capabilities = <<>>
     /\ result.vendors = docsIndex.vendors

\* C21 as stated: with the vendor omitted, listApis groups all the entries of
\* category api by vendor and returns exactly one summary record per vendor,
\* whose model field states the number of distinct models of that vendor and
\* whose capabilities list is empty; vendors is the vendors list of the index.
C21_SummaryPerVendorOfApiEntries ==
  ListingAll => OneSummaryPerVendor({Entries[i].vendor : i \in ApiEntries})

\* C21, amended: the same for the api entries whose vendor is not the empty
\* string; an api entry without a vendor is in no group.
C21_SummaryPerNamedVendor ==
  ListingAll => OneSummaryPerVendor({Entries[i].vendor : i \in ApiEntries} \ {<<>>})

\* A vendor with more api entries than models is summarised: its one record
\* counts the models, not the entries.
C21_Witness ==
  /\ ListingAll
  /\ Len(result.apis) = 1
  /\ Cardinality({i \in ApiEntries : Entries[i].vendor = result.apis[1].vendor})
       > Cardinality(ModelsOf(result.apis[1].vendor))
  /\ result.apis[1].model = modelsAvailable(Cardinality(ModelsOf(result.apis[1].vendor)))
  /\ result.vendors = docsIndex.vendors

\* C22: the only failures that reach the caller of the query functions are
\* the index being unavailable and, from getDocContent only, 'Document not
\* found'.  Here loadIndex has delivered its snapshot, so the index is not
\* unavailable and every error thrown is 'Document not found' thrown by
\* getDocContent; searchDocs and listApis return normally.
C22_OnlyNotFoundReachesCaller ==
  result.kind = "err" =>
    /\ call.fn = "getDocContent"
    /\ result.error = "Document not found"

\* ---- the build script: buildIndex ------------------------------------------------
\* The longest list of pages that the navigation names.
MaxPages == 3

\* String.prototype.split(sep) for a separator of one character.
RECURSIVE splitAt(_, _, _, _)
splitAt(s, sep, i, piece) ==
  IF i > Len(s) THEN <<piece>>
  ELSE IF s[i] = sep THEN <<piece>> \o splitAt(s, sep, i + 1, <<>>)
  ELSE splitAt(s, sep, i + 1, Append(piece, s[i]))
splitOn(s, sep) == splitAt(s, sep, 1, <<>>)

\* String.prototype.startsWith.
startsWith(s, prefix) ==
  Len(prefix) <= Len(s) /\ SubSeq(s, 1, Len(prefix)) = prefix

\* parts[k] || "" for the zero-based k: undefined beyond the end.
partOr(parts, k) == IF k + 1 <= Len(parts) THEN parts[k + 1] ELSE <<>>

\* The words of the paths.
Docs == <<"d", "o", "c", "s">>
Api == <<"a", "p", "i">>
AllApi == <<"a", "l", "l">> \o Api
Guide == <<"g", "u", "i", "d", "e">>
Quickstart == <<"q", "u", "i", "c", "k", "s", "t", "a", "r", "t">>
pathOf(parts) == join(parts, <<"/">>)

\* parsePathMetadata(path).
parsePathMetadata(path) ==
  LET parts == splitOn(path, "/")
      none(category) ==
        [vendor |-> <<>>, model |-> <<>>, format |-> <<>>, capability |-> <<>>,
         category |-> category]
  IN IF \/ startsWith(path, pathOf(<<Docs, AllApi, <<>>>>))
        \/ /\ startsWith(path, pathOf(<<Docs, Api, <<>>>>))
           /\ ~(Len(parts) >= 3 /\ parts[3] = Quickstart)
       THEN [vendor |-> partOr(parts, 2), model |-> partOr(parts, 3),
             format |-> partOr(parts, 4), capability |-> partOr(parts, 5),
             category |-> "api"]
     ELSE IF startsWith(path, pathOf(<<Docs, Guide, <<>>>>)) THEN none("guide")
     ELSE IF startsWith(path, pathOf(<<Docs, Api, Quickstart, <<>>>>))
       THEN none("quickstart")
     ELSE none("getting-started")

\* The pages that docs.json can name: API pages of three vendors, with and
\* without the later parts of the path, an API path without a vendor, and
\* pages of the other categories.
PagePool ==
  { pathOf(<<Docs, AllApi, <<"b">>, <<"x">>, <<"a">>, <<"b">>>>),
    pathOf(<<Docs, Api, <<"a">>, <<"x">>>>),
    pathOf(<<Docs, Api, <<"B">>>>),
    pathOf(<<Docs, Api, <<>>>>),
    pathOf(<<Docs, Api, Quickstart, <<"a">>>>),
    pathOf(<<Docs, Guide, <<"a">>>>),
    <<"a">> }
\* ---- docs.json ---------------------------------------------------------------
\* A JSON value of docs.json: a string, an array of values, an object of
\* which the properties pages, groups and tabs matter, or another value
\* (number, boolean, null).  A property that is absent or falsy is <<>>,
\* one that is present is <<value>>.
StringNode(t) ==
  [kind |-> "string", str |-> t, items |-> <<>>,
   pages |-> <<>>, groups |-> <<>>, tabs |-> <<>>]
ArrayNode(items) ==
  [kind |-> "array", str |-> <<>>, items |-> items,
   pages |-> <<>>, groups |-> <<>>, tabs |-> <<>>]
ObjectNode(pgs, groups, tabs) ==
  [kind |-> "object", str |-> <<>>, items |-> <<>>,
   pages |-> pgs, groups |-> groups, tabs |-> tabs]
OtherNode ==
  [kind |-> "other", str |-> <<>>, items |-> <<>>,
   pages |-> <<>>, groups |-> <<>>, tabs |-> <<>>]

\* extractPages(obj): the pages it pushes, in order.  extractEach is
\* obj.forEach(extractPages) from item i on.
RECURSIVE extractPages(_), extractEach(_, _)
extractPages(obj) ==
  IF obj.kind = "string" THEN <<obj.str>>
  ELSE IF obj.kind = "array" THEN extractEach(obj.items, 1)
  ELSE IF obj.kind = "object"
    THEN extractEach(obj.pages, 1) \o extractEach(obj.groups, 1)
           \o extractEach(obj.tabs, 1)
  ELSE <<>>
extractEach(items, i) ==
  IF i > Len(items) THEN <<>>
  ELSE extractPages(items[i]) \o extractEach(items, i + 1)

\* parseDocsJson() for the parsed docs.json whose navigation property is
\* `navigation` (<<>> when docs.json has none).
parseDocsJson(navigation) == extractEach(navigation, 1)

\* Lists of up to n page names; a page can be named more than once.
PageNames(n) == UNION {[1..m -> PagePool] : m \in 0..n}
strings(ps) == [i \in 1..Len(ps) |-> StringNode(ps[i])]
\* The navigations of docs.json that name the pages ps: tabs of groups whose
\* pages hold page names and a nested group; an object that has its pages
\* written after its groups; and, for no page, a docs.json without
\* navigation or with one that is no array, object or string.
NavigationsOf(ps) ==
  (IF ps = <<>> THEN {<<>>, <<OtherNode>>} ELSE {})
  \cup UNION {
    {<<ObjectNode(<<>>, <<>>,
         <<ArrayNode(<<ObjectNode(<<>>,
              <<ArrayNode(<<ObjectNode(
                   <<ArrayNode(Append(strings(SubSeq(ps, 1, k)),
                        ObjectNode(<<ArrayNode(strings(SubSeq(ps, k + 1, Len(ps))))>>,
                                   <<>>, <<>>)))>>,
                   <<>>, <<>>)>>)>>,
              <<>>)>>)>>)>>,
     <<ObjectNode(<<ArrayNode(strings(SubSeq(ps, 1, k)))>>,
                  <<ArrayNode(<<ObjectNode(
                       <<ArrayNode(strings(SubSeq(ps, k + 1, Len(ps))))>>,
                       <<>>, <<>>)>>)>>,
                  <<>>)>>} : k \in 0..Len(ps)}
\* What parseDocsJson() can return for a navigation that names up to n pages.
PageLists(n) ==
  UNION {{parseDocsJson(navigation) : navigation \in NavigationsOf(ps)} :
           ps \in PageNames(n)}

\* The pages whose MDX file exists and can be read.
MdxFiles ==
  { pathOf(<<Docs, Api, <<"a">>, <<"x">>>>), pathOf(<<Docs, Guide, <<"a">>>>) }
\* readMdxFile(page): the front matter and the content, or empty strings.
readMdxFile(page) ==
  IF page \in MdxFiles
    THEN [title |-> <<"x">>, description |-> <<"a">>, content |-> page]
    ELSE [title |-> <<>>, description |-> <<>>, content |-> <<>>]

\* metadata.x || "".
orEmpty(t) == IF Boolean(t) THEN t ELSE <<>>

\* Set.prototype.add.
add(set, v) == IF \E j \in 1..Len(set) : set[j] = v THEN set ELSE Append(set, v)

BuildInit ==
  /\ clock = StartClock
  /\ ticks = 0
  /\ cachedIndex = Null
  /\ lastFetchTime = 0
  /\ userFile = "absent"
  /\ cacheDir = FALSE
  /\ bundledFile = "absent"
  /\ pc = [c \in Calls |-> "idle"]
  /\ now = [c \in Calls |-> 0]
  /\ held = [c \in Calls |-> Null]
  /\ resp = [c \in Calls |-> "none"]
  /\ wr = [c \in Calls |-> "none"]
  /\ remoteIndex = [c \in Calls |-> Null]
  /\ outcome = [c \in Calls |-> Pending]
  /\ ops = [c \in Calls |-> <<>>]
  /\ lastStore = NoStore
  /\ diskAdopt = NoAdopt
  /\ persisted = NoneDurable
  /\ docsIndex = EmptyIndex
  /\ call = NoCall
  /\ result = NoResult
  /\ pages \in PageLists(MaxPages)
  /\ entries = <<>>
  /\ vendors = <<>>
  /\ output = NoOutput

\* One round of `for (const page of pages)`.
ProcessPage ==
  /\ output = NoOutput
  /\ Len(entries) < Len(pages)
  /\ LET page == pages[Len(entries) + 1]
         metadata == parsePathMetadata(page)
         mdxData == readMdxFile(page)
     IN /\ vendors' = IF Boolean(metadata.vendor)
                        THEN add(vendors, metadata.vendor)
                        ELSE vendors
        /\ entries' = Append(entries,
             [path |-> page, title |-> mdxData.title,
              description |-> mdxData.description,
              vendor |-> orEmpty(metadata.vendor),
              model |-> orEmpty(metadata.model),
              format |-> orEmpty(metadata.format),
              capability |-> orEmpty(metadata.capability),
              category |-> metadata.category,
              content |-> mdxData.content])
  /\ UNCHANGED <<pages, output, loader, qvars>>

\* After the loop: the index is assembled and written to OUTPUT_PATH.
WriteIndex ==
  /\ output = NoOutput
  /\ Len(entries) = Len(pages)
  /\ output' = [version |-> "1.0.0", totalDocs |-> Len(entries),
                vendors |-> sortStrings(vendors), entries |-> entries]
  /\ UNCHANGED <<pages, entries, vendors, loader, qvars>>

BuildNext == ProcessPage \/ WriteIndex

SpecBuild == BuildInit /\ [][BuildNext]_vars

\* ---- properties of the build script ------------------------------------------
Written == output # NoOutput
\* The list is in strictly ascending order of code units.
Ascending(l) == \A i, j \in 1..Len(l) : i < j => StringLess(l[i], l[j])
\* The vendor values of the entries written that are not the empty string.
NamedVendors ==
  {output.entries[i].vendor : i \in 1..Len(output.entries)} \ {<<>>}

\* C23: every index that buildIndex writes, whatever the list of pages,
\* has totalDocs equal to the number of its entries and for vendors the
\* ascending list, without duplicates, of the non-empty vendor values that
\* occur in its entries.
C23_BuiltIndexConsistent ==
  Written =>
    /\ output.totalDocs = Len(output.entries)
    /\ Len(output.entries) = Len(pages)
    /\ Ascending(output.vendors)
    /\ {output.vendors[i] : i \in 1..Len(output.vendors)} = NamedVendors

\* An index of three entries is written whose pages name one vendor twice
\* and, in between, a vendor that sorts before it.
C23_Witness ==
  /\ Written
  /\ output.totalDocs = 3
  /\ Len(output.vendors) = 2
  /\ output.entries[1].vendor = output.vendors[2]
  /\ output.entries[2].vendor = output.vendors[1]
  /\ output.entries[3].vendor = output.vendors[2]

\* ---- further properties of index acquisition ------------------------------------
\* The memory cache holds an index that a remote fetch of this process
\* delivered: the last store was the store of a remote index by loadIndex.
RemoteHeld ==
  /\ cachedIndex # Null
  /\ lastStore.index = cachedIndex
  /\ lastStore.time > 0
  /\ ~diskAdopt.valid
\* Call c ends loadIndex by storing the index it read from disk source `via`.
StoresFrom(c, via) == Resumes(c) /\ outcome'[c] = Returned("loadIndex", cachedIndex', via)

\* C24: the memory cache is replaced only by a fresher index: once
\* cachedIndex holds an index that a remote fetch delivered, no later store
\* replaces it with an older index; in particular none replaces it with a
\* different index read from the bundled copy, which is older than every
\* response the process has received.
C24_RemoteIndexNotReplacedByOlder ==
  [][RemoteHeld => \A c \in Calls :
       ~(StoresFrom(c, "bundled") /\ cachedIndex' # cachedIndex)]_vars

\* C25: the per-user cache file only ever holds an index that a remote fetch
\* delivered: every step that creates or changes the file is the write of
\* fetchRemoteIndex in a call whose fetch returns an index, and writes that
\* very index; a remote attempt that loadIndex treats as failed, the disk
\* fallback and loadIndexSync leave the file as it is.
C25_FileWrittenOnlyWithFetchedIndex ==
  [][userFile' # userFile =>
       \E c \in Calls :
         /\ pc[c] = "json"
         /\ pc'[c] = "resume"
         /\ remoteIndex'[c] # Null
         /\ userFile' = Stringify(remoteIndex'[c])]_vars

\* The positions of operation o among the I/O operations of call c.
At(c, o) == {k \in 1..Len(ops[c]) : ops[c][k] = o}
\* Call c is a loadIndex call past its freshness test that did not hit memory.
Acquiring(c) ==
  \/ pc[c] \in {"fetch", "json", "resume"}
  \/ pc[c] = "done" /\ outcome[c].fn = "loadIndex" /\ outcome[c].via # "memory"
\* The reads of the two disk sources by loadCachedIndex.
Reads == {"readUser", "readBundled"}

\* C26: the sources are consulted in strict priority order, with short
\* circuit: a loadIndex call that is not a memory hit issues exactly one
\* remote fetch, before anything else; it reads a disk source only after that
\* fetch has failed; it reads the bundled copy only after the per-user file,
\* which gave it nothing; and once a source has succeeded it consults no
\* further one.
C26_SourcesInPriorityOrder ==
  \A c \in Calls : Acquiring(c) =>
    /\ At(c, "fetch") = {1}
    /\ Cardinality(At(c, "readUser")) <= 1
    /\ Cardinality(At(c, "readBundled")) <= 1
    /\ (\E o \in Reads : At(c, o) # {}) =>
         /\ pc[c] = "done"
         /\ outcome[c].via # "remote"
         /\ At(c, "readUser") # {}
    /\ At(c, "readBundled") # {} =>
         /\ \E i \in At(c, "readUser") : \A j \in At(c, "readBundled") : i < j
         /\ outcome[c].via # "user"
    /\ (pc[c] = "done" /\ outcome[c].via = "remote") =>
         \A o \in Reads : At(c, o) = {}
    /\ (pc[c] = "done" /\ outcome[c].via = "user") =>
         /\ At(c, "readBundled") = {}
         /\ ops[c][Len(ops[c])] = "readUser"
    /\ (pc[c] = "done" /\ outcome[c].via \in {"bundled", "none"}) =>
         ops[c][Len(ops[c])] \in Reads

\* A call whose fetch failed has read the per-user file, then the bundled
\* copy, and returns the bundled index.
C26_Witness ==
  \E c \in Calls :
    /\ pc[c] = "done"
    /\ outcome[c].fn = "loadIndex"
    /\ outcome[c].via = "bundled"
    /\ ops[c] = <<"fetch", "readUser", "readBundled">>

\* C27: the clock never goes back, and lastFetchTime never decreases: however
\* the loadIndex calls interleave, every step of loadIndex that writes
\* lastFetchTime stores a value greater than or equal to the one it overwrites.
C27_LastFetchTimeMonotone ==
  [][/\ clock' >= clock
     /\ \A c \in Calls : Resumes(c) => lastFetchTime' >= lastFetchTime]_vars

\* Call c takes the step on which loadIndex or loadIndexSync throws.
Fails(c) == pc[c] # "done" /\ pc'[c] = "done" /\ outcome'[c].kind = "err"

\* C28: a loadIndex or loadIndexSync call that fails leaves cachedIndex and
\* lastFetchTime as they were, and has written nothing to the per-user cache
\* file.
C28_FailedCallChangesNothing ==
  [][\A c \in Calls : Fails(c) =>
       /\ cachedIndex' = cachedIndex
       /\ lastFetchTime' = lastFetchTime
       /\ \A k \in 1..Len(ops'[c]) : ops'[c][k] # "write"]_vars

\* C29: in every reachable state lastFetchTime is set (not 0) only if
\* cachedIndex is present, and cachedIndex, once present, stays present for
\* the lifetime of the process: only the restart of the process empties it.
C29_StampOnlyWithIndex ==
  /\ [](lastFetchTime # 0 => cachedIndex # Null)
  /\ [][(cachedIndex # Null /\ ~Restart) => cachedIndex' # Null]_vars

\* The memory cache holds a stamped index, and a later call has failed
\* without emptying it.
C29_Witness ==
  /\ cachedIndex # Null
  /\ lastFetchTime # 0
  /\ \E c \in Calls : pc[c] = "done" /\ outcome[c].kind = "err"

\* The index in the memory cache was adopted by loadIndexSync and no
\* loadIndex call has stored since.
SyncHeld == cachedIndex # Null /\ lastStore.time = 0

\* C30: loadIndexSync never modifies lastFetchTime: when it adopts a disk
\* fallback index into an empty memory cache lastFetchTime stays unset (0),
\* so that the next loadIndex call does not take that index for fresh and
\* attempts the remote fetch.
C30_SyncLeavesStampUnset ==
  [][\A c \in Calls :
       /\ RunsSync(c) =>
            /\ lastFetchTime' = lastFetchTime
            /\ (cachedIndex = Null /\ cachedIndex' # Null) => lastFetchTime' = 0
       /\ (SyncHeld /\ Enters(c)) =>
            /\ pc'[c] = "fetch"
            /\ ops'[c] = <<"fetch">>
            /\ outcome'[c] = Pending]_vars

\* A loadIndex call is fetching although the memory cache held, when it
\* started, the index that loadIndexSync had adopted.
C30_Witness ==
  \E c \in Calls :
    /\ pc[c] = "fetch"
    /\ held[c] # Null
    /\ SyncHeld
    /\ lastFetchTime = 0

\* C32: in every index that buildIndex writes no two entries share a path,
\* whatever navigation parseDocsJson has parsed, one that names the same
\* page more than once included.
C32_PathsUnique ==
  Written =>
    \A i, j \in 1..Len(output.entries) :
      i # j => output.entries[i].path # output.entries[j].path

\* ---- termination of loadIndex ----------------------------------------------------
\* A fetch without an abort signal: nothing rejects a request that the server
\* leaves unanswered.
AbortsNever(c) == FALSE

\* fetch(..., { signal: AbortSignal.timeout(10000) }): the signal fires and
\* the pending request, or the pending read of its body, is rejected.
Aborts(c) == (FetchSettles(c) \/ JsonSettles(c)) /\ resp'[c] = "rejected"

\* The scheduling of the calls: the timer of the abort signal fires when the
\* server has not answered (the server itself need never answer), and the
\* event loop runs the continuation of a settled await.
Fairness ==
  \A c \in Calls : WF_vars(Aborts(c)) /\ WF_vars(LoadIndexResume(c))

\* The process at a moment when no call is running: the memory cache is
\* empty, or holds index 1 that a fetch delivered CACHE_TTL ago (stale) and
\* whose disk write failed; the disk is as in Init.
LiveInit ==
  /\ clock = StartClock + CACHE_TTL
  /\ ticks = 0
  /\ \/ /\ cachedIndex = Null
        /\ lastFetchTime = 0
        /\ lastStore = NoStore
     \/ /\ cachedIndex = 1
        /\ lastFetchTime = StartClock
        /\ lastStore = [index |-> 1, time |-> StartClock]
  /\ userFile \in {"absent", "unreadable", "garbage"} \cup {Stringify(i) : i \in Indexes}
  /\ cacheDir \in BOOLEAN
  /\ (userFile # "absent" => cacheDir)
  /\ bundledFile \in {"absent", Stringify(1)}
  /\ pc = [c \in Calls |-> "idle"]
  /\ now = [c \in Calls |-> 0]
  /\ held = [c \in Calls |-> Null]
  /\ resp = [c \in Calls |-> "none"]
  /\ wr = [c \in Calls |-> "none"]
  /\ remoteIndex = [c \in Calls |-> Null]
  /\ outcome = [c \in Calls |-> Pending]
  /\ ops = [c \in Calls |-> <<>>]
  /\ diskAdopt = NoAdopt
  /\ persisted = NoneDurable
  /\ docsIndex = EmptyIndex
  /\ call = NoCall
  /\ result = NoResult
  /\ NotBuilding

\* The steps of the loadIndex calls while the process lives; the clock
\* stands still, since no step of a call waits for a time.
LiveNext ==
  \/ \E c \in Calls : LoadIndexStart(c)
  \/ \E c \in Calls : FetchSettles(c)
  \/ \E c \in Calls : JsonSettles(c)
  \/ \E c \in Calls : LoadIndexResume(c)
  \/ \E c \in Calls : Settle(c)

SpecLive == LiveInit /\ [][LiveNext]_vars /\ Fairness

\* Call c is inside loadIndex, waiting for its fetch or about to resume.
InFlight(c) == pc[c] \in {"fetch", "json", "resume"}
\* loadIndex has ended for call c: it returned an index or threw the error
\* that the index is not available.
Completed(c) ==
  /\ pc[c] = "done"
  /\ outcome[c].fn = "loadIndex"
  /\ \/ outcome[c].kind = "ok" /\ outcome[c].index # Null
     \/ outcome[c] = Thrown("loadIndex")

\* C31: every loadIndex call eventually completes: it returns an index or
\* fails with the error that the index is not available, whatever the other
\* call does and whatever the memory cache holds, given that the request is
\* answered or is aborted by its 10 s timeout.
C31_LoadIndexCompletes ==
  \A c \in Calls : InFlight(c) ~> Completed(c)

\* A call that went to the network has completed while the other call,
\* which started on a stale memory cache, is still waiting for its fetch.
C31_Witness ==
  \E c, d \in Calls :
    /\ c # d
    /\ Completed(c)
    /\ ops[c] # <<>>
    /\ pc[d] = "fetch"
    /\ held[d] # Null

====
